---- MODULE Spec2Model ----
(***************************************************************************)
(* State-synchronization core of the Nexus shell (frankfika/AIHomee):      *)
(* the in-memory React state of App (meetings, selection, chat histories,  *)
(* settings), the component-local state of Recorder, MeetingDetail,        *)
(* ChatInterface and SettingsModal that gates the handlers, the three      *)
(* localStorage slots, the backup document, and the external AI calls in   *)
(* flight.  One action per event handler or promise settlement; the        *)
(* persist effects of App.tsx run as part of the action that changes the   *)
(* store they watch.                                                       *)
(***************************************************************************)
EXTENDS Integers, Sequences, FiniteSets, TLC

---------------------------------------------------------------------------
(* Bounds of the model *)

\* recordings made in one session (identifiers 1..MaxMeetings, uuidv4 is fresh)
MaxMeetings == 1
\* longest transcript a chat is driven to
MaxChatLen == 2
\* AI refine calls in flight at once
MaxRefineCalls == 1
\* agents created in one session (uuidv4 is fresh)
MaxNewAgents == 1

---------------------------------------------------------------------------
(* Values *)

\* an optional field that is undefined (JSON.stringify drops it)
Absent == "<undefined>"
\* selectedMeetingId = null
NoSelection == 0
\* an undefined suggestedTags (updateMeeting spreads { suggestedTags: undefined })
UndefinedTags == <<Absent>>

\* MeetingStatus, types.ts
RECORDING == "RECORDING"
PROCESSING == "PROCESSING"
COMPLETED == "COMPLETED"
ERROR == "ERROR"

PlaceholderTitle == "Analyzing Audio..."
ErrorTitle == "Error Processing"
ProcessingNotice == "Processing failed. Please check your API Keys in settings."
RefineNotice == "Failed to refine with AI"
ImportedNotice == "Data imported successfully!"
InvalidFormatNotice == "Invalid backup file format."
ParseFailedNotice == "Failed to parse backup file."
NoNotice == "<none>"
ChatErrorText == "I encountered an error connecting to the service. Please check your API Keys in settings."

\* LANGUAGES of App.tsx: code -> label
LANGUAGES ==
  << [code |-> "auto", label |-> "Auto-Detect"],
     [code |-> "zh-CN", label |-> "Chinese"],
     [code |-> "en-US", label |-> "English"],
     [code |-> "ja-JP", label |-> "Japanese"] >>

\* LANGUAGES.find(l => l.code === selectedLanguage)?.label || 'Auto'
languageLabel(code) ==
  IF \E i \in 1..Len(LANGUAGES) : LANGUAGES[i].code = code
  THEN LANGUAGES[CHOOSE i \in 1..Len(LANGUAGES) : LANGUAGES[i].code = code].label
  ELSE "Auto"

\* the language codes the user picks in the model
LanguageChoices == {"zh-CN", "auto"}

\* DEFAULT_AGENTS, types.ts (isDefault is set on the first only)
DEFAULT_AGENTS ==
  << [id |-> "secretary", provider |-> "google", modelId |-> "gemini-2.5-flash", isDefault |-> TRUE],
     [id |-> "lifecoach", provider |-> "google", modelId |-> "gemini-2.5-flash", isDefault |-> FALSE],
     [id |-> "coder", provider |-> "google", modelId |-> "gemini-2.5-flash", isDefault |-> FALSE] >>

\* useState<UserSettings>(...) of App.tsx
InitialSettings ==
  [ apiKeys |-> [google |-> "", openai |-> "", anthropic |-> ""],
    agents |-> DEFAULT_AGENTS,
    activeAgentId |-> DEFAULT_AGENTS[1].id ]

\* credential strings typed into the settings form
KeyInputs == {"", "g-key"}

\* ProcessingResult values the provider returns (typed strings, possibly empty)
Results ==
  { [title |-> "Weekly Sync", transcription |-> "hello team", report |-> "# Minutes",
     suggestedTags |-> <<"budget">>, language |-> "English"],
    [title |-> "Untitled", transcription |-> "", report |-> "",
     suggestedTags |-> <<>>, language |-> "Unknown"] }

\* text the user saves from the report editor (the textarea may be emptied)
ReportInputs == {"", "edited"}
\* text the user types into the title editor
TitleInputs == {"", "My Title"}
\* text typed into the tag box
TagInputs == {" budget "}
\* response.text of the refine call
RefineTexts == {"", "# Refined"}

\* String.prototype.trim on the tag inputs of the model
trim(s) == IF s = " budget " THEN "budget" ELSE s

---------------------------------------------------------------------------
(* Sequence helpers: Array.prototype.filter / map / find *)

filterSeq(s, keep(_)) == SelectSeq(s, keep)

mapSeq(s, f(_)) == [i \in 1..Len(s) |-> f(s[i])]

includes(s, x) == \E i \in 1..Len(s) : s[i] = x

idsOf(ms) == {ms[i].id : i \in 1..Len(ms)}

\* meetings.find(m => m.id === id): the first match
findMeeting(ms, id) == ms[CHOOSE i \in 1..Len(ms) : ms[i].id = id /\ \A j \in 1..(i-1) : ms[j].id # id]

---------------------------------------------------------------------------
(* Slots and documents *)

\* a serializer that drops the blob and keeps the object URL
stripAudio_keepsUrl(m) == [m EXCEPT !.audioBlob = Absent]

\* meetings.map(({ audioBlob, audioUrl, ...rest }) => rest)
stripAudio(m) == [m EXCEPT !.audioBlob = Absent, !.audioUrl = Absent]
serializeMeetings(ms) == mapSeq(ms, stripAudio)

\* localStorage.getItem(...) === null
NoMeetingsSlot == [has |-> FALSE, doc |-> <<>>]
NoSettingsSlot == [has |-> FALSE, doc |-> InitialSettings]
NoChatsSlot == [has |-> FALSE, doc |-> <<>>]
slot(doc) == [has |-> TRUE, doc |-> doc]

VARIABLES
  phase,              \* "mount" before the first effects, "loading" until the loaded state
                      \* is rendered, then "run"
  loaded,             \* the state updates the load effect has queued
  envKey,             \* whether process.env.API_KEY is defined in this build
  meetings,           \* useState<MeetingData[]>
  selectedMeetingId,  \* useState<string | null>
  mode,               \* useState<AppMode>
  isProcessing,       \* useState(false)
  selectedLanguage,   \* useState('zh-CN')
  settings,           \* useState<UserSettings>
  chatHistories,      \* useState<Record<string, ChatMessage[]>>
  nextId,             \* the next identifier uuidv4 hands out
  recording,          \* Recorder: the closure onstop holds while recording, or none
  procCalls,          \* processMeetingAudio promises not yet settled
  isRefining,         \* MeetingDetail useState(false), per mounted detail
  refineCalls,        \* refineMeetingReport promises not yet settled
  isLoading,          \* ChatInterface useState(false)
  chatCalls,          \* chatWithAgent promises not yet settled
  lsMeetings,         \* localStorage nexus_meetings
  lsSettings,         \* localStorage nexus_settings
  lsChats,            \* localStorage nexus_chats
  backup,             \* the backup file last written by handleExportData
  notice,             \* the alert() raised by the last step
  deletedInFlight     \* history: identifiers deleted while their processing call was pending

vars ==
  << phase, loaded, envKey, meetings, selectedMeetingId, mode, isProcessing, selectedLanguage,
     settings, chatHistories, nextId, recording, procCalls, isRefining,
     refineCalls, isLoading, chatCalls, lsMeetings, lsSettings, lsChats, backup, notice,
     deletedInFlight >>

---------------------------------------------------------------------------
(* What a previous session left in localStorage *)

\* a record of an earlier session that finished processing
PriorCompleted ==
  [ id |-> 91, title |-> "Weekly Sync", status |-> COMPLETED, tags |-> <<>>,
    suggestedTags |-> <<"budget">>, transcription |-> "hello team", report |-> "# Minutes",
    language |-> "English", audioBlob |-> Absent, audioUrl |-> Absent ]

PriorSessions ==
  { [meetings |-> NoMeetingsSlot, settings |-> NoSettingsSlot, chats |-> NoChatsSlot],
    [meetings |-> slot(<<PriorCompleted>>),
     settings |-> slot([InitialSettings EXCEPT !.apiKeys.google = "g-key"]),
     chats |-> slot(<<>>)] }

NoRecording == [on |-> FALSE, language |-> "", apiKey |-> "", agentId |-> ""]
\* no backup file has been written
NoBackup == [written |-> FALSE, doc |-> <<>>]

\* the load effect has queued nothing
NothingLoaded == [meetings |-> NoMeetingsSlot, settings |-> NoSettingsSlot, chats |-> NoChatsSlot]

Init ==
  /\ phase = "mount"
  /\ loaded = NothingLoaded
  /\ envKey \in BOOLEAN
  /\ meetings = <<>>
  /\ selectedMeetingId = NoSelection
  /\ mode = "vault"
  /\ isProcessing = FALSE
  /\ selectedLanguage = "zh-CN"
  /\ settings = InitialSettings
  /\ chatHistories = <<>>
  /\ nextId = 1
  /\ recording = NoRecording
  /\ procCalls = {}
  /\ isRefining = FALSE
  /\ refineCalls = <<>>
  /\ isLoading = FALSE
  /\ chatCalls = {}
  /\ \E prior \in PriorSessions :
        /\ lsMeetings = prior.meetings
        /\ lsSettings = prior.settings
        /\ lsChats = prior.chats
  /\ backup = NoBackup
  /\ notice = NoNotice
  /\ deletedInFlight = {}

---------------------------------------------------------------------------
(* The persist effects: each runs after a render in which its store changed *)

SetMeetings(ms) == meetings' = ms /\ lsMeetings' = slot(serializeMeetings(ms))
SetSettings(st) == settings' = st /\ lsSettings' = slot(st)
\* a chat store whose persist effect does not run on change
SetChats_unsaved(ch) == chatHistories' = ch /\ lsChats' = lsChats
SetChats(ch) == chatHistories' = ch /\ lsChats' = slot(ch)
KeepMeetings == UNCHANGED <<meetings, lsMeetings>>
KeepSettings == UNCHANGED <<settings, lsSettings>>
KeepChats == UNCHANGED <<chatHistories, lsChats>>

(* MeetingDetail is rendered with key={selectedMeetingId} while the selected   *)
(* record exists: another key, or no record, unmounts it and drops its state.  *)
detailMounted(ms, sel) == sel # NoSelection /\ sel \in idsOf(ms)
sameDetail(ms2, sel2) ==
  /\ sel2 = selectedMeetingId
  /\ detailMounted(meetings, selectedMeetingId)
  /\ detailMounted(ms2, sel2)
orphaned(calls) == [i \in 1..Len(calls) |-> [calls[i] EXCEPT !.live = FALSE]]
DetailAfter(ms2, sel2, flag, calls) ==
  /\ isRefining' = IF sameDetail(ms2, sel2) THEN flag ELSE FALSE
  /\ refineCalls' = IF sameDetail(ms2, sel2) THEN calls ELSE orphaned(calls)

\* a load effect that runs after the persist effects of the first commit have written
\* the initial state
slotsAtLoad_afterSave ==
  [ meetings |-> slot(serializeMeetings(meetings)),
    settings |-> slot(settings),
    chats |-> slot(chatHistories) ]

\* what getItem returns to the load effect: it is declared before the persist effects,
\* so it reads the slots as the previous session left them
slotsAtLoad == [meetings |-> lsMeetings, settings |-> lsSettings, chats |-> lsChats]

\* the effects of the first commit, in declaration order: the load effect reads the
\* slots and queues what it read; the persist effects write the state of this render,
\* which is the initial one
MountEffects ==
  /\ phase = "mount"
  /\ phase' = "loading"
  /\ loaded' = slotsAtLoad
  /\ lsMeetings' = slot(serializeMeetings(meetings))
  /\ lsSettings' = slot(settings)
  /\ lsChats' = slot(chatHistories)
  /\ notice' = NoNotice
  /\ UNCHANGED <<envKey, deletedInFlight, meetings, selectedMeetingId, mode, isProcessing,
                 selectedLanguage, settings, chatHistories, nextId, recording, procCalls,
                 isRefining, refineCalls, isLoading, chatCalls, backup>>

\* the render that applies the queued updates, and the persist effects of the stores
\* that changed
Startup ==
  /\ phase = "loading"
  /\ phase' = "run"
  /\ loaded' = NothingLoaded
  /\ IF loaded.meetings.has THEN SetMeetings(loaded.meetings.doc) ELSE KeepMeetings
  /\ IF loaded.settings.has THEN SetSettings(loaded.settings.doc) ELSE KeepSettings
  /\ IF loaded.chats.has THEN SetChats(loaded.chats.doc) ELSE KeepChats
  /\ notice' = NoNotice
  /\ UNCHANGED <<envKey, deletedInFlight, selectedMeetingId, mode, isProcessing, selectedLanguage,
                 nextId, recording, procCalls, isRefining, refineCalls, isLoading, chatCalls,
                 backup>>

---------------------------------------------------------------------------
(* Recorder and handleRecordingComplete *)

(* The settings modal (showSettings) covers the main view while it is open.  It  *)
(* can be opened and closed at any time and no handler reads it, so the model   *)
(* leaves the flag out: a handler of either view is enabled once the app runs.  *)
mainView == phase = "run"

\* a lookup without the fallback: undefined when no agent has the active identifier
activeAgent_noFallback(st) ==
  IF \E i \in 1..Len(st.agents) : st.agents[i].id = st.activeAgentId
  THEN st.agents[CHOOSE i \in 1..Len(st.agents) : st.agents[i].id = st.activeAgentId]
  ELSE [id |-> Absent, provider |-> Absent, modelId |-> Absent, isDefault |-> FALSE]

\* settings.agents.find(a => a.id === settings.activeAgentId) || settings.agents[0]
activeAgent(st) ==
  IF \E i \in 1..Len(st.agents) : st.agents[i].id = st.activeAgentId
  THEN st.agents[CHOOSE i \in 1..Len(st.agents) : st.agents[i].id = st.activeAgentId]
  ELSE st.agents[1]

\* startRecording: onstop keeps the onRecordingComplete of this render
StartRecording ==
  /\ mainView /\ mode = "vault"
  /\ ~isProcessing
  /\ ~recording.on
  /\ nextId <= MaxMeetings
  /\ recording' = [on |-> TRUE, language |-> selectedLanguage, apiKey |-> settings.apiKeys.google,
                   agentId |-> activeAgent(settings).id]
  /\ notice' = NoNotice
  /\ UNCHANGED <<phase, loaded, envKey, deletedInFlight, meetings, selectedMeetingId, mode, isProcessing, selectedLanguage,
                 settings, chatHistories, nextId, procCalls, isRefining,
                 refineCalls, isLoading, chatCalls, lsMeetings, lsSettings, lsChats, backup>>

\* newMeeting with the status left at Recording
newMeeting_recording(newId, lang) ==
  [ id |-> newId, title |-> PlaceholderTitle, status |-> RECORDING, tags |-> <<>>,
    suggestedTags |-> <<>>, transcription |-> Absent, report |-> Absent,
    language |-> languageLabel(lang), audioBlob |-> "blob", audioUrl |-> "url" ]

newMeeting(newId, lang) ==
  [ id |-> newId, title |-> PlaceholderTitle, status |-> PROCESSING, tags |-> <<>>,
    suggestedTags |-> <<>>, transcription |-> Absent, report |-> Absent,
    language |-> languageLabel(lang), audioBlob |-> "blob", audioUrl |-> "url" ]

\* stopRecording -> onstop -> handleRecordingComplete, up to the await
handleRecordingComplete ==
  /\ mainView /\ mode = "vault"
  /\ recording.on
  /\ LET newId == nextId
         ms2 == <<newMeeting(newId, recording.language)>> \o meetings
     IN /\ SetMeetings(ms2)
        /\ selectedMeetingId' = newId
        /\ procCalls' = procCalls \cup {[id |-> newId, apiKey |-> recording.apiKey,
                                         agentId |-> recording.agentId]}
        /\ DetailAfter(ms2, newId, isRefining, refineCalls)
  /\ nextId' = nextId + 1
  /\ mode' = "vault"
  /\ isProcessing' = TRUE
  /\ recording' = NoRecording
  /\ notice' = NoNotice
  /\ KeepSettings /\ KeepChats
  /\ UNCHANGED <<phase, loaded, envKey, deletedInFlight, selectedLanguage, isLoading, chatCalls, backup>>

\* getClient: apiKey || process.env.API_KEY, throws when neither is set
hasClient(apiKey) == apiKey # "" \/ envKey

\* a success branch that leaves the report out
applyResult_noReport(ms, id, r) ==
  mapSeq(ms, LAMBDA m : IF m.id = id
                        THEN [m EXCEPT !.status = COMPLETED, !.title = r.title,
                                       !.transcription = r.transcription,
                                       !.suggestedTags = r.suggestedTags, !.language = r.language]
                        ELSE m)

\* a success branch that writes status and title and leaves the rest for later
applyResult_statusFirst(ms, id, r) ==
  mapSeq(ms, LAMBDA m : IF m.id = id
                        THEN [m EXCEPT !.status = COMPLETED, !.title = r.title]
                        ELSE m)

\* a success branch that puts the record back when the identifier is gone
applyResult_upsert(ms, id, r) ==
  IF id \in idsOf(ms)
  THEN mapSeq(ms, LAMBDA m : IF m.id = id
                             THEN [m EXCEPT !.status = COMPLETED, !.title = r.title,
                                            !.transcription = r.transcription, !.report = r.report,
                                            !.suggestedTags = r.suggestedTags, !.language = r.language]
                             ELSE m)
  ELSE << [ id |-> id, title |-> r.title, status |-> COMPLETED, tags |-> <<>>,
            suggestedTags |-> r.suggestedTags, transcription |-> r.transcription,
            report |-> r.report, language |-> r.language,
            audioBlob |-> Absent, audioUrl |-> Absent ] >> \o ms

applyResult(ms, id, r) ==
  mapSeq(ms, LAMBDA m : IF m.id = id
                        THEN [m EXCEPT !.status = COMPLETED, !.title = r.title,
                                       !.transcription = r.transcription, !.report = r.report,
                                       !.suggestedTags = r.suggestedTags, !.language = r.language]
                        ELSE m)

\* a catch branch that also blanks the report
applyFailure_clearsReport(ms, id) ==
  mapSeq(ms, LAMBDA m : IF m.id = id
                        THEN [m EXCEPT !.status = ERROR, !.title = ErrorTitle, !.report = ""]
                        ELSE m)

\* a catch branch that discards the failed record
applyFailure_removes(ms, id) == filterSeq(ms, LAMBDA m : m.id # id)

applyFailure(ms, id) ==
  mapSeq(ms, LAMBDA m : IF m.id = id THEN [m EXCEPT !.status = ERROR, !.title = ErrorTitle] ELSE m)

\* the await of handleRecordingComplete resolves: the try branch and finally
ProcessSucceed(call, r) ==
  /\ phase = "run"
  /\ call \in procCalls
  /\ hasClient(call.apiKey)
  /\ LET ms2 == applyResult(meetings, call.id, r)
     IN SetMeetings(ms2) /\ DetailAfter(ms2, selectedMeetingId, isRefining, refineCalls)
  /\ procCalls' = procCalls \ {call}
  /\ isProcessing' = FALSE
  /\ notice' = NoNotice
  /\ KeepSettings /\ KeepChats
  /\ UNCHANGED <<phase, loaded, envKey, deletedInFlight, selectedMeetingId, mode, selectedLanguage, nextId,
                 recording, isLoading, chatCalls, backup>>

\* a catch branch without the alert
ProcessFail_silent(call) ==
  /\ phase = "run"
  /\ call \in procCalls
  /\ LET ms2 == applyFailure(meetings, call.id)
     IN SetMeetings(ms2) /\ DetailAfter(ms2, selectedMeetingId, isRefining, refineCalls)
  /\ procCalls' = procCalls \ {call}
  /\ isProcessing' = FALSE
  /\ notice' = NoNotice
  /\ KeepSettings /\ KeepChats
  /\ UNCHANGED <<phase, loaded, envKey, deletedInFlight, selectedMeetingId, mode, selectedLanguage, nextId,
                 recording, isLoading, chatCalls, backup>>

\* the await rejects: the catch branch and finally
ProcessFail(call) ==
  /\ phase = "run"
  /\ call \in procCalls
  /\ LET ms2 == applyFailure(meetings, call.id)
     IN SetMeetings(ms2) /\ DetailAfter(ms2, selectedMeetingId, isRefining, refineCalls)
  /\ procCalls' = procCalls \ {call}
  /\ isProcessing' = FALSE
  /\ notice' = ProcessingNotice
  /\ KeepSettings /\ KeepChats
  /\ UNCHANGED <<phase, loaded, envKey, deletedInFlight, selectedMeetingId, mode, selectedLanguage, nextId,
                 recording, isLoading, chatCalls, backup>>

---------------------------------------------------------------------------
(* Navigation *)

\* onClick of a list entry: setSelectedMeetingId(meeting.id)
SelectMeeting(id) ==
  /\ mainView /\ mode = "vault"
  /\ id \in idsOf(meetings)
  /\ id # selectedMeetingId
  /\ selectedMeetingId' = id
  /\ DetailAfter(meetings, id, isRefining, refineCalls)
  /\ notice' = NoNotice
  /\ KeepMeetings /\ KeepSettings /\ KeepChats
  /\ UNCHANGED <<phase, loaded, envKey, deletedInFlight, mode, isProcessing, selectedLanguage, nextId,
                 recording, procCalls, isLoading, chatCalls, backup>>

\* onClose of MeetingDetail: setSelectedMeetingId(null)
CloseDetail ==
  /\ mainView /\ mode = "vault"
  /\ detailMounted(meetings, selectedMeetingId)
  /\ selectedMeetingId' = NoSelection
  /\ DetailAfter(meetings, NoSelection, isRefining, refineCalls)
  /\ notice' = NoNotice
  /\ KeepMeetings /\ KeepSettings /\ KeepChats
  /\ UNCHANGED <<phase, loaded, envKey, deletedInFlight, mode, isProcessing, selectedLanguage, nextId,
                 recording, procCalls, isLoading, chatCalls, backup>>

\* the Live Chat button: setMode('chat'); setSelectedMeetingId(null)
SetModeChat ==
  /\ mainView
  /\ mode' = "chat"
  /\ selectedMeetingId' = NoSelection
  /\ DetailAfter(meetings, NoSelection, isRefining, refineCalls)
  /\ notice' = NoNotice
  /\ KeepMeetings /\ KeepSettings /\ KeepChats
  /\ UNCHANGED <<phase, loaded, envKey, deletedInFlight, isProcessing, selectedLanguage, nextId,
                 recording, procCalls, isLoading, chatCalls, backup>>

\* the Vault button: setMode('vault')
SetModeVault ==
  /\ mainView
  /\ mode # "vault"
  /\ mode' = "vault"
  /\ notice' = NoNotice
  /\ KeepMeetings /\ KeepSettings /\ KeepChats
  /\ UNCHANGED <<phase, loaded, envKey, deletedInFlight, selectedMeetingId, isProcessing, selectedLanguage,
                 nextId, recording, procCalls, isRefining, refineCalls, isLoading, chatCalls,
                 backup>>

\* the language select of the header, shown in vault mode
SetLanguage(code) ==
  /\ mainView /\ mode = "vault"
  /\ code # selectedLanguage
  /\ selectedLanguage' = code
  /\ notice' = NoNotice
  /\ KeepMeetings /\ KeepSettings /\ KeepChats
  /\ UNCHANGED <<phase, loaded, envKey, deletedInFlight, selectedMeetingId, mode, isProcessing, nextId,
                 recording, procCalls, isRefining, refineCalls, isLoading, chatCalls, backup>>

---------------------------------------------------------------------------
(* updateMeeting / deleteMeeting and the MeetingDetail handlers *)

\* updateMeeting(id, { tags, suggestedTags })
updateTags(ms, id, tags, suggested) ==
  mapSeq(ms, LAMBDA m : IF m.id = id THEN [m EXCEPT !.tags = tags, !.suggestedTags = suggested] ELSE m)
\* updateMeeting(id, { report })
updateReport(ms, id, report) ==
  mapSeq(ms, LAMBDA m : IF m.id = id THEN [m EXCEPT !.report = report] ELSE m)
\* an update that replaces the record's status along with the title
updateTitle_resetsStatus(ms, id, title) ==
  mapSeq(ms, LAMBDA m : IF m.id = id THEN [m EXCEPT !.title = title, !.status = PROCESSING] ELSE m)
\* updateMeeting(id, { title })
updateTitle(ms, id, title) ==
  mapSeq(ms, LAMBDA m : IF m.id = id THEN [m EXCEPT !.title = title] ELSE m)

\* the detail view of the selected record takes input
detailView == mainView /\ mode = "vault" /\ detailMounted(meetings, selectedMeetingId)
selectedMeeting == findMeeting(meetings, selectedMeetingId)

\* a handler of MeetingDetail that ends in updateMeeting(selectedMeetingId, ...)
DetailUpdate(ms2) ==
  /\ SetMeetings(ms2)
  /\ DetailAfter(ms2, selectedMeetingId, isRefining, refineCalls)
  /\ notice' = NoNotice
  /\ KeepSettings /\ KeepChats
  /\ UNCHANGED <<phase, loaded, envKey, deletedInFlight, selectedMeetingId, mode, isProcessing, selectedLanguage,
                 nextId, recording, procCalls, isLoading, chatCalls, backup>>

handleAddTag(newTag) ==
  /\ detailView
  /\ trim(newTag) # ""
  /\ ~includes(selectedMeeting.tags, trim(newTag))
  /\ DetailUpdate(updateTags(meetings, selectedMeetingId,
                              Append(selectedMeeting.tags, trim(newTag)), UndefinedTags))

handleRemoveTag(tagToRemove) ==
  /\ detailView
  /\ includes(selectedMeeting.tags, tagToRemove)
  /\ DetailUpdate(updateTags(meetings, selectedMeetingId,
                              filterSeq(selectedMeeting.tags, LAMBDA t : t # tagToRemove),
                              UndefinedTags))

handleAcceptSuggestion(tag) ==
  /\ detailView
  /\ selectedMeeting.suggestedTags # UndefinedTags
  /\ includes(selectedMeeting.suggestedTags, tag)
  /\ DetailUpdate(updateTags(meetings, selectedMeetingId,
                              Append(selectedMeeting.tags, tag),
                              filterSeq(selectedMeeting.suggestedTags, LAMBDA t : t # tag)))

\* Edit Manually, type, Save: onUpdateReport(editableReport)
handleSaveManualEdit(editableReport) ==
  /\ detailView
  /\ DetailUpdate(updateReport(meetings, selectedMeetingId, editableReport))

saveTitle(titleInput) ==
  /\ detailView
  /\ titleInput # ""
  /\ DetailUpdate(updateTitle(meetings, selectedMeetingId, titleInput))

\* a deleteMeeting that clears the selection whatever it pointed at
deleteMeeting_alwaysClears(id) ==
  /\ LET ms2 == filterSeq(meetings, LAMBDA m : m.id # id)
     IN /\ SetMeetings(ms2)
        /\ selectedMeetingId' = NoSelection
        /\ DetailAfter(ms2, NoSelection, isRefining, refineCalls)
  /\ deletedInFlight' = deletedInFlight \cup ({id} \cap {call.id : call \in procCalls})
  /\ notice' = NoNotice
  /\ KeepSettings /\ KeepChats
  /\ UNCHANGED <<phase, loaded, envKey, mode, isProcessing, selectedLanguage, nextId,
                 recording, procCalls, isLoading, chatCalls, backup>>

\* deleteMeeting(id): the filter and the selection test
deleteMeeting(id) ==
  /\ LET ms2 == filterSeq(meetings, LAMBDA m : m.id # id)
         sel2 == IF selectedMeetingId = id THEN NoSelection ELSE selectedMeetingId
     IN /\ SetMeetings(ms2)
        /\ selectedMeetingId' = sel2
        /\ DetailAfter(ms2, sel2, isRefining, refineCalls)
  /\ deletedInFlight' = deletedInFlight \cup ({id} \cap {call.id : call \in procCalls})
  /\ notice' = NoNotice
  /\ KeepSettings /\ KeepChats
  /\ UNCHANGED <<phase, loaded, envKey, mode, isProcessing, selectedLanguage, nextId,
                 recording, procCalls, isLoading, chatCalls, backup>>

\* the trash button, confirmed: onDelete = deleteMeeting(selectedMeetingId)
handleDeleteConfirm ==
  /\ detailView
  /\ deleteMeeting(selectedMeetingId)

\* meeting.report || ''
orEmpty(v) == IF v = Absent THEN "" ELSE v

\* handleAiRefine up to the await (the form is disabled while isRefining)
handleAiRefine ==
  /\ detailView
  /\ ~isRefining
  /\ Len(refineCalls) < MaxRefineCalls
  /\ isRefining' = TRUE
  /\ refineCalls' = Append(refineCalls, [id |-> selectedMeetingId,
                                          report |-> orEmpty(selectedMeeting.report),
                                          live |-> TRUE])
  /\ notice' = NoNotice
  /\ KeepMeetings /\ KeepSettings /\ KeepChats
  /\ UNCHANGED <<phase, loaded, envKey, deletedInFlight, selectedMeetingId, mode, isProcessing, selectedLanguage,
                 nextId, recording, procCalls, isLoading, chatCalls, backup>>

removeAt(s, i) == SubSeq(s, 1, i - 1) \o SubSeq(s, i + 1, Len(s))

\* refineMeetingReport resolves (it is called without apiKey): response.text || currentReport
RefineSucceed(i, text) ==
  /\ phase = "run"
  /\ i \in 1..Len(refineCalls)
  /\ hasClient("")
  /\ LET call == refineCalls[i]
         newContent == IF text # "" THEN text ELSE call.report
         ms2 == updateReport(meetings, call.id, newContent)
     IN /\ SetMeetings(ms2)
        /\ DetailAfter(ms2, selectedMeetingId,
                       IF call.live THEN FALSE ELSE isRefining, removeAt(refineCalls, i))
  /\ notice' = NoNotice
  /\ KeepSettings /\ KeepChats
  /\ UNCHANGED <<phase, loaded, envKey, deletedInFlight, selectedMeetingId, mode, isProcessing, selectedLanguage,
                 nextId, recording, procCalls, isLoading, chatCalls, backup>>

\* a catch branch that puts back the report the call was made with
RefineFail_revertsReport(i) ==
  /\ phase = "run"
  /\ i \in 1..Len(refineCalls)
  /\ LET ms2 == updateReport(meetings, refineCalls[i].id, refineCalls[i].report)
     IN /\ SetMeetings(ms2)
        /\ DetailAfter(ms2, selectedMeetingId,
                       IF refineCalls[i].live THEN FALSE ELSE isRefining, removeAt(refineCalls, i))
  /\ notice' = RefineNotice
  /\ KeepSettings /\ KeepChats
  /\ UNCHANGED <<phase, loaded, envKey, deletedInFlight, selectedMeetingId, mode, isProcessing, selectedLanguage,
                 nextId, recording, procCalls, isLoading, chatCalls, backup>>

\* refineMeetingReport rejects: alert, nothing written
RefineFail(i) ==
  /\ phase = "run"
  /\ i \in 1..Len(refineCalls)
  /\ isRefining' = IF refineCalls[i].live THEN FALSE ELSE isRefining
  /\ refineCalls' = removeAt(refineCalls, i)
  /\ notice' = RefineNotice
  /\ KeepMeetings /\ KeepSettings /\ KeepChats
  /\ UNCHANGED <<phase, loaded, envKey, deletedInFlight, selectedMeetingId, mode, isProcessing, selectedLanguage,
                 nextId, recording, procCalls, isLoading, chatCalls, backup>>

---------------------------------------------------------------------------
(* Settings modal *)

settingsView == phase = "run"

\* a handler that ends in onUpdateSettings(st)
SettingsUpdate(st) ==
  /\ SetSettings(st)
  /\ notice' = NoNotice
  /\ KeepMeetings /\ KeepChats
  /\ UNCHANGED <<phase, loaded, envKey, deletedInFlight, selectedMeetingId, mode, isProcessing, selectedLanguage,
                 nextId, recording, procCalls, isRefining, refineCalls, isLoading,
                 chatCalls, backup>>

\* handleKeyChange(provider, value)
handleKeyChange(provider, value) ==
  /\ settingsView
  /\ value # settings.apiKeys[provider]
  /\ SettingsUpdate([settings EXCEPT !.apiKeys[provider] = value])

agentIds(st) == {st.agents[i].id : i \in 1..Len(st.agents)}

\* what the agent editor holds when Save is pressed: an agent of the list with the
\* provider and model fields as the user left them, or the form of a new agent
ProviderModels == {[provider |-> "google", modelId |-> "gemini-2.5-flash"],
                   [provider |-> "openai", modelId |-> "gpt-4o"]}
AgentForms(st) ==
  {[st.agents[i] EXCEPT !.provider = pm.provider, !.modelId = pm.modelId] :
      i \in 1..Len(st.agents), pm \in ProviderModels}
  \cup {[id |-> Absent, provider |-> pm.provider, modelId |-> pm.modelId, isDefault |-> FALSE] :
          pm \in ProviderModels}

\* handleSaveAgent (name and systemInstruction filled in): the warning when the
\* provider has no key, then update by id or create with a fresh id
handleSaveAgent(editingAgent, confirmed) ==
  /\ settingsView
  /\ notice' = NoNotice
  /\ IF settings.apiKeys[editingAgent.provider] = "" /\ ~confirmed
     THEN KeepSettings /\ nextId' = nextId
     ELSE IF editingAgent.id # Absent
     THEN /\ SetSettings([settings EXCEPT !.agents =
                            mapSeq(settings.agents,
                                   LAMBDA a : IF a.id = editingAgent.id THEN editingAgent ELSE a)])
          /\ nextId' = nextId
     ELSE /\ nextId <= MaxNewAgents
          /\ SetSettings([settings EXCEPT !.agents =
                            Append(settings.agents, [editingAgent EXCEPT !.id = ToString(nextId)])])
          /\ nextId' = nextId + 1
  /\ KeepMeetings /\ KeepChats
  /\ UNCHANGED <<phase, loaded, envKey, deletedInFlight, selectedMeetingId, mode, isProcessing,
                 selectedLanguage, recording, procCalls, isRefining, refineCalls, isLoading,
                 chatCalls, backup>>

\* a Delete button shown for every saved agent
deleteAgent_unguarded(id) ==
  /\ settingsView
  /\ \E i \in 1..Len(settings.agents) : settings.agents[i].id = id
  /\ SettingsUpdate([settings EXCEPT !.agents = filterSeq(settings.agents, LAMBDA a : a.id # id)])

\* the Delete button of the agent editor: shown when editingAgent.id && !editingAgent.isDefault
deleteAgent(id) ==
  /\ settingsView
  /\ \E i \in 1..Len(settings.agents) : settings.agents[i].id = id /\ ~settings.agents[i].isDefault
  /\ SettingsUpdate([settings EXCEPT !.agents = filterSeq(settings.agents, LAMBDA a : a.id # id)])

\* the agent menu of the header
handleAgentSelect(agentId) ==
  /\ mainView
  /\ agentId \in agentIds(settings)
  /\ agentId # settings.activeAgentId
  /\ SettingsUpdate([settings EXCEPT !.activeAgentId = agentId])

---------------------------------------------------------------------------
(* Backup and restore *)

\* a backup document written without the chat histories
exportDocument_noChats ==
  [ parses |-> TRUE, hasVersion |-> TRUE,
    hasSettings |-> TRUE, settings |-> settings,
    hasMeetings |-> TRUE, meetings |-> serializeMeetings(meetings),
    hasChats |-> FALSE, chatHistories |-> <<>> ]

\* dataToExport of handleExportData, as JSON.parse reads it back
exportDocument ==
  [ parses |-> TRUE, hasVersion |-> TRUE,
    hasSettings |-> TRUE, settings |-> settings,
    hasMeetings |-> TRUE, meetings |-> serializeMeetings(meetings),
    hasChats |-> TRUE, chatHistories |-> chatHistories ]

handleExportData ==
  /\ settingsView
  /\ backup' = [written |-> TRUE, doc |-> exportDocument]
  /\ notice' = NoNotice
  /\ KeepMeetings /\ KeepSettings /\ KeepChats
  /\ UNCHANGED <<phase, loaded, envKey, deletedInFlight, selectedMeetingId, mode, isProcessing, selectedLanguage,
                 nextId, recording, procCalls, isRefining, refineCalls, isLoading,
                 chatCalls>>

\* the files the user can pick: the backup, or a copy of it cut short or with a key removed
filesFrom(doc) ==
  { doc,
    [doc EXCEPT !.parses = FALSE],
    [doc EXCEPT !.hasVersion = FALSE],
    [doc EXCEPT !.hasSettings = FALSE],
    [doc EXCEPT !.hasMeetings = FALSE],
    [doc EXCEPT !.hasChats = FALSE] }

\* an import that tests for the settings sub-object only
handleFileChange_noVersionTest(json, confirmed) ==
  /\ settingsView
  /\ IF ~json.parses
     THEN /\ notice' = ParseFailedNotice
          /\ KeepMeetings /\ KeepSettings /\ KeepChats
          /\ UNCHANGED <<isRefining, refineCalls>>
     ELSE IF ~json.hasSettings
     THEN /\ notice' = InvalidFormatNotice
          /\ KeepMeetings /\ KeepSettings /\ KeepChats
          /\ UNCHANGED <<isRefining, refineCalls>>
     ELSE IF ~confirmed
     THEN /\ notice' = NoNotice
          /\ KeepMeetings /\ KeepSettings /\ KeepChats
          /\ UNCHANGED <<isRefining, refineCalls>>
     ELSE /\ SetSettings(json.settings)
          /\ IF json.hasMeetings
             THEN /\ SetMeetings(json.meetings)
                  /\ DetailAfter(json.meetings, selectedMeetingId, isRefining, refineCalls)
             ELSE KeepMeetings /\ UNCHANGED <<isRefining, refineCalls>>
          /\ IF json.hasChats THEN SetChats(json.chatHistories) ELSE KeepChats
          /\ notice' = ImportedNotice
  /\ UNCHANGED <<phase, loaded, envKey, deletedInFlight, selectedMeetingId, mode, isProcessing, selectedLanguage, nextId,
                 recording, procCalls, isLoading, chatCalls, backup>>

\* an import that keeps the stored records the document does not name
handleFileChange_merges(json, confirmed) ==
  /\ settingsView
  /\ IF ~json.parses
     THEN /\ notice' = ParseFailedNotice
          /\ KeepMeetings /\ KeepSettings /\ KeepChats
          /\ UNCHANGED <<isRefining, refineCalls>>
     ELSE IF ~(json.hasVersion /\ json.hasSettings)
     THEN /\ notice' = InvalidFormatNotice
          /\ KeepMeetings /\ KeepSettings /\ KeepChats
          /\ UNCHANGED <<isRefining, refineCalls>>
     ELSE IF ~confirmed
     THEN /\ notice' = NoNotice
          /\ KeepMeetings /\ KeepSettings /\ KeepChats
          /\ UNCHANGED <<isRefining, refineCalls>>
     ELSE /\ SetSettings(json.settings)
          /\ IF json.hasMeetings
             THEN LET merged == json.meetings \o
                              filterSeq(meetings, LAMBDA m : m.id \notin idsOf(json.meetings))
                  IN /\ SetMeetings(merged)
                     /\ DetailAfter(merged, selectedMeetingId, isRefining, refineCalls)
             ELSE KeepMeetings /\ UNCHANGED <<isRefining, refineCalls>>
          /\ IF json.hasChats THEN SetChats(json.chatHistories) ELSE KeepChats
          /\ notice' = ImportedNotice
  /\ UNCHANGED <<phase, loaded, envKey, deletedInFlight, selectedMeetingId, mode, isProcessing, selectedLanguage, nextId,
                 recording, procCalls, isLoading, chatCalls, backup>>

\* reader.onload of handleFileChange
handleFileChange(json, confirmed) ==
  /\ settingsView
  /\ IF ~json.parses
     THEN /\ notice' = ParseFailedNotice
          /\ KeepMeetings /\ KeepSettings /\ KeepChats
          /\ UNCHANGED <<isRefining, refineCalls>>
     ELSE IF ~(json.hasVersion /\ json.hasSettings)
     THEN /\ notice' = InvalidFormatNotice
          /\ KeepMeetings /\ KeepSettings /\ KeepChats
          /\ UNCHANGED <<isRefining, refineCalls>>
     ELSE IF ~confirmed
     THEN /\ notice' = NoNotice
          /\ KeepMeetings /\ KeepSettings /\ KeepChats
          /\ UNCHANGED <<isRefining, refineCalls>>
     ELSE /\ SetSettings(json.settings)
          /\ IF json.hasMeetings
             THEN /\ SetMeetings(json.meetings)
                  /\ DetailAfter(json.meetings, selectedMeetingId, isRefining, refineCalls)
             ELSE KeepMeetings /\ UNCHANGED <<isRefining, refineCalls>>
          /\ IF json.hasChats THEN SetChats(json.chatHistories) ELSE KeepChats
          /\ notice' = ImportedNotice
  /\ UNCHANGED <<phase, loaded, envKey, deletedInFlight, selectedMeetingId, mode, isProcessing, selectedLanguage, nextId,
                 recording, procCalls, isLoading, chatCalls, backup>>

---------------------------------------------------------------------------
(* Chat *)

\* chatHistories[id] || []
historyOf(ch, id) == IF id \in DOMAIN ch THEN ch[id] ELSE <<>>

\* an updateChatHistory that stores under the agent that is active when it runs
updateChatHistory_activeNow(ch, agentId, messages) ==
  [k \in DOMAIN ch \cup {activeAgent(settings).id} |->
     IF k = activeAgent(settings).id THEN messages ELSE ch[k]]

\* updateChatHistory of the render whose active agent is agentId:
\* setChatHistories(prev => ({ ...prev, [agentId]: messages }))
updateChatHistory(ch, agentId, messages) ==
  [k \in DOMAIN ch \cup {agentId} |-> IF k = agentId THEN messages ELSE ch[k]]

\* what the user types into the chat box
ChatInputs == {"hello"}
\* response.text of the chat call
ChatTexts == {"", "hi there"}

\* the key handleSend picks for the agent's provider
keyFor(agent, st) == st.apiKeys[agent.provider]

\* handleSend up to the await
handleSend(input) ==
  /\ mainView /\ mode = "chat"
  /\ input # ""
  /\ ~isLoading
  /\ LET agent == activeAgent(settings)
         history == historyOf(chatHistories, agent.id)
         newHistory == Append(history, [role |-> "user", content |-> input])
     IN /\ Len(newHistory) < MaxChatLen
        /\ SetChats(updateChatHistory(chatHistories, agent.id, newHistory))
        /\ chatCalls' = chatCalls \cup {[agent |-> agent, newHistory |-> newHistory,
                                         apiKey |-> keyFor(agent, settings)]}
  /\ isLoading' = TRUE
  /\ notice' = NoNotice
  /\ KeepMeetings /\ KeepSettings
  /\ UNCHANGED <<phase, loaded, envKey, deletedInFlight, selectedMeetingId, mode, isProcessing, selectedLanguage,
                 nextId, recording, procCalls, isRefining, refineCalls, backup>>

\* a placeholder text with the model identifier where the provider belongs
simulationText_swapped(agent) ==
  "[System]: Simulation - Interaction with " \o agent.modelId \o " (" \o agent.provider \o
  ") requires their specific SDK."

\* chatWithAgent for a provider other than google: no client, no call
simulationText(agent) ==
  "[System]: Simulation - Interaction with " \o agent.provider \o " (" \o agent.modelId \o
  ") requires their specific SDK."

\* a continuation that writes the answer alone over the transcript
ChatSettle_dropsUserTurn(call, content) ==
  /\ SetChats(updateChatHistory(chatHistories, call.agent.id,
                                 <<[role |-> "model", content |-> content]>>))
  /\ chatCalls' = chatCalls \ {call}
  /\ isLoading' = FALSE
  /\ notice' = NoNotice
  /\ KeepMeetings /\ KeepSettings
  /\ UNCHANGED <<phase, loaded, envKey, deletedInFlight, selectedMeetingId, mode, isProcessing, selectedLanguage,
                 nextId, recording, procCalls, isRefining, refineCalls, backup>>

\* a handler continuation of handleSend that ends in onUpdateHistory([...newHistory, msg])
ChatSettle(call, content) ==
  /\ SetChats(updateChatHistory(chatHistories, call.agent.id,
                                 Append(call.newHistory, [role |-> "model", content |-> content])))
  /\ chatCalls' = chatCalls \ {call}
  /\ isLoading' = FALSE
  /\ notice' = NoNotice
  /\ KeepMeetings /\ KeepSettings
  /\ UNCHANGED <<phase, loaded, envKey, deletedInFlight, selectedMeetingId, mode, isProcessing, selectedLanguage,
                 nextId, recording, procCalls, isRefining, refineCalls, backup>>

\* chatWithAgent resolves: response.text || "No response generated."
ChatReply(call, text) ==
  /\ phase = "run"
  /\ call \in chatCalls
  /\ IF call.agent.provider # "google"
     THEN ChatSettle(call, simulationText(call.agent))
     ELSE /\ hasClient(call.apiKey)
          /\ ChatSettle(call, IF text # "" THEN text ELSE "No response generated.")

\* a catch branch with no finally: the in-flight flag stays set
ChatFail_staysLoading(call) ==
  /\ phase = "run"
  /\ call \in chatCalls
  /\ call.agent.provider = "google"
  /\ SetChats(updateChatHistory(chatHistories, call.agent.id,
                                 Append(call.newHistory, [role |-> "model", content |-> ChatErrorText])))
  /\ chatCalls' = chatCalls \ {call}
  /\ isLoading' = isLoading
  /\ notice' = NoNotice
  /\ KeepMeetings /\ KeepSettings
  /\ UNCHANGED <<phase, loaded, envKey, deletedInFlight, selectedMeetingId, mode, isProcessing, selectedLanguage,
                 nextId, recording, procCalls, isRefining, refineCalls, backup>>

\* chatWithAgent rejects (getClient throws, or the provider call fails)
ChatFail(call) ==
  /\ phase = "run"
  /\ call \in chatCalls
  /\ call.agent.provider = "google"
  /\ ChatSettle(call, ChatErrorText)

---------------------------------------------------------------------------
(* The next-state relations *)

\* the vault: recording, processing and everything the detail view offers, in a
\* session that leaves the credentials as it found them
Next ==
  \/ MountEffects
  \/ Startup
  \/ StartRecording
  \/ handleRecordingComplete
  \/ \E call \in procCalls : \E r \in Results : ProcessSucceed(call, r)
  \/ \E call \in procCalls : ProcessFail(call)
  \/ \E id \in idsOf(meetings) : SelectMeeting(id)
  \/ CloseDetail
  \/ SetModeChat
  \/ SetModeVault
  \/ \E t \in TagInputs : handleAddTag(t)
  \/ \E t \in {trim(x) : x \in TagInputs} : handleRemoveTag(t)
  \/ \E t \in {trim(x) : x \in TagInputs} : handleAcceptSuggestion(t)
  \/ \E text \in ReportInputs : handleSaveManualEdit(text)
  \/ \E text \in TitleInputs : saveTitle(text)
  \/ handleDeleteConfirm
  \/ handleAiRefine
  \/ \E i \in 1..Len(refineCalls) : \E text \in RefineTexts : RefineSucceed(i, text)
  \/ \E i \in 1..Len(refineCalls) : RefineFail(i)

Spec == Init /\ [][Next]_vars

\* picking a backup file written earlier in the session, or a damaged copy of it
Import ==
  /\ backup.written
  /\ \E json \in filesFrom(backup.doc) : \E confirmed \in BOOLEAN : handleFileChange(json, confirmed)

\* the vault with backup and restore: the record lifecycle, deletion, export, import
NextBackup ==
  \/ MountEffects
  \/ Startup
  \/ StartRecording
  \/ handleRecordingComplete
  \/ \E call \in procCalls : \E r \in Results : ProcessSucceed(call, r)
  \/ \E call \in procCalls : ProcessFail(call)
  \/ \E id \in idsOf(meetings) : SelectMeeting(id)
  \/ CloseDetail
  \/ SetModeChat
  \/ SetModeVault
  \/ handleDeleteConfirm
  \/ \E v \in KeyInputs : handleKeyChange("google", v)
  \/ handleExportData
  \/ Import

SpecBackup == Init /\ [][NextBackup]_vars

\* the meeting store driven by any caller: deleteMeeting with any stored identifier
NextStore ==
  \/ MountEffects
  \/ Startup
  \/ StartRecording
  \/ handleRecordingComplete
  \/ \E call \in procCalls : \E r \in Results : ProcessSucceed(call, r)
  \/ \E call \in procCalls : ProcessFail(call)
  \/ \E id \in idsOf(meetings) : SelectMeeting(id)
  \/ CloseDetail
  \/ SetModeChat
  \/ SetModeVault
  \/ \E id \in idsOf(meetings) : phase = "run" /\ deleteMeeting(id)

SpecStore == Init /\ [][NextStore]_vars

\* the chat: agents and transcripts
NextChat ==
  \/ MountEffects
  \/ Startup
  \/ SetModeChat
  \/ SetModeVault
  \/ \E v \in KeyInputs : handleKeyChange("google", v)
  \/ \E id \in agentIds(settings) : deleteAgent(id)
  \/ \E id \in agentIds(settings) : handleAgentSelect(id)
  \/ \E input \in ChatInputs : handleSend(input)
  \/ \E call \in chatCalls : \E text \in ChatTexts : ChatReply(call, text)
  \/ \E call \in chatCalls : ChatFail(call)

SpecChat == Init /\ [][NextChat]_vars

\* backup and restore of all three stores: recordings, chats, credentials
NextRestore ==
  \/ MountEffects
  \/ Startup
  \/ StartRecording
  \/ handleRecordingComplete
  \/ \E call \in procCalls : \E r \in Results : ProcessSucceed(call, r)
  \/ \E call \in procCalls : ProcessFail(call)
  \/ handleDeleteConfirm
  \/ SetModeChat
  \/ SetModeVault
  \/ \E input \in ChatInputs : handleSend(input)
  \/ \E call \in chatCalls : \E text \in ChatTexts : ChatReply(call, text)
  \/ \E call \in chatCalls : ChatFail(call)
  \/ \E v \in KeyInputs : handleKeyChange("google", v)
  \/ handleExportData
  \/ Import

SpecRestore == Init /\ [][NextRestore]_vars

\* the agent editor and the chat with the selected agent
NextAgents ==
  \/ MountEffects
  \/ Startup
  \/ SetModeChat
  \/ SetModeVault
  \/ \E provider \in {"google", "openai"} : \E v \in KeyInputs : handleKeyChange(provider, v)
  \/ \E form \in AgentForms(settings) : \E confirmed \in BOOLEAN : handleSaveAgent(form, confirmed)
  \/ \E id \in agentIds(settings) : deleteAgent(id)
  \/ \E input \in ChatInputs : handleSend(input)
  \/ \E call \in chatCalls : \E text \in ChatTexts : ChatReply(call, text)
  \/ \E call \in chatCalls : ChatFail(call)

SpecAgents == Init /\ [][NextAgents]_vars

\* the page is reloaded: every useState starts over, pending promises are gone,
\* localStorage stays
Reload ==
  /\ phase # "mount"
  /\ phase' = "mount"
  /\ loaded' = NothingLoaded
  /\ meetings' = <<>>
  /\ selectedMeetingId' = NoSelection
  /\ mode' = "vault"
  /\ isProcessing' = FALSE
  /\ selectedLanguage' = "zh-CN"
  /\ settings' = InitialSettings
  /\ chatHistories' = <<>>
  /\ recording' = NoRecording
  /\ procCalls' = {}
  /\ isRefining' = FALSE
  /\ refineCalls' = <<>>
  /\ isLoading' = FALSE
  /\ chatCalls' = {}
  /\ notice' = NoNotice
  /\ UNCHANGED <<envKey, nextId, lsMeetings, lsSettings, lsChats, backup, deletedInFlight>>

\* sessions one after another over the same localStorage: recordings, chat and
\* credentials, and page reloads
NextSession ==
  \/ MountEffects
  \/ Startup
  \/ StartRecording
  \/ handleRecordingComplete
  \/ \E call \in procCalls : \E r \in Results : ProcessSucceed(call, r)
  \/ \E call \in procCalls : ProcessFail(call)
  \/ SetModeChat
  \/ SetModeVault
  \/ \E input \in ChatInputs : handleSend(input)
  \/ \E call \in chatCalls : \E text \in ChatTexts : ChatReply(call, text)
  \/ \E call \in chatCalls : ChatFail(call)
  \/ \E v \in KeyInputs : handleKeyChange("google", v)
  \/ Reload

SpecSession == Init /\ [][NextSession]_vars

\* a backup file exported in an earlier session, after a chat with the first agent
EarlierBackup ==
  [ parses |-> TRUE, hasVersion |-> TRUE,
    hasSettings |-> TRUE, settings |-> [InitialSettings EXCEPT !.apiKeys.google = "g-key"],
    hasMeetings |-> TRUE, meetings |-> <<PriorCompleted>>,
    hasChats |-> TRUE,
    chatHistories |-> [id \in {"secretary"} |->
                         << [role |-> "user", content |-> "hello"],
                            [role |-> "model", content |-> "hi there"] >>] ]

\* picking that file in the import dialog
ImportEarlier ==
  \E confirmed \in BOOLEAN : handleFileChange(EarlierBackup, confirmed)

\* the chat while a backup of an earlier session is restored
NextChatRestore ==
  \/ MountEffects
  \/ Startup
  \/ SetModeChat
  \/ SetModeVault
  \/ \E input \in ChatInputs : handleSend(input)
  \/ \E call \in chatCalls : \E text \in ChatTexts : ChatReply(call, text)
  \/ \E call \in chatCalls : ChatFail(call)
  \/ \E v \in KeyInputs : handleKeyChange("google", v)
  \/ ImportEarlier

SpecChatRestore == Init /\ [][NextChatRestore]_vars

\* the settings modal: agents selected, created, edited and deleted, and the backup
\* of an earlier session restored
NextEditor ==
  \/ MountEffects
  \/ Startup
  \/ \E id \in agentIds(settings) : handleAgentSelect(id)
  \/ \E form \in AgentForms(settings) : \E confirmed \in BOOLEAN : handleSaveAgent(form, confirmed)
  \/ \E id \in agentIds(settings) : deleteAgent(id)
  \/ ImportEarlier

SpecEditor == Init /\ [][NextEditor]_vars

\* the capture: language, credential and agent changed while a recording runs
NextCapture ==
  \/ MountEffects
  \/ Startup
  \/ StartRecording
  \/ \E code \in LanguageChoices : SetLanguage(code)
  \/ \E v \in KeyInputs : handleKeyChange("google", v)
  \/ \E id \in agentIds(settings) : handleAgentSelect(id)
  \/ handleRecordingComplete
  \/ \E call \in procCalls : \E r \in Results : ProcessSucceed(call, r)
  \/ \E call \in procCalls : ProcessFail(call)

SpecCapture == Init /\ [][NextCapture]_vars

---------------------------------------------------------------------------
(* Properties of the meeting lifecycle *)

(* C1: under Spec (no restore from a backup) a record that stays in the store  *)
(* keeps its status in every step, except that a Processing record may become  *)
(* Completed or Error; a Completed or Error record never changes status, and a *)
(* step of a tag, report or title handler changes no record's status.          *)
C1_StatusOnlyAdvances ==
  [][ /\ \A i \in 1..Len(meetings) : \A j \in 1..Len(meetings') :
           meetings[i].id = meetings'[j].id =>
             \/ meetings'[j].status = meetings[i].status
             \/ /\ meetings[i].status = PROCESSING
                /\ meetings'[j].status \in {COMPLETED, ERROR}
      /\ ( \/ \E t \in TagInputs : handleAddTag(t)
           \/ \E t \in {trim(x) : x \in TagInputs} : handleRemoveTag(t)
           \/ \E t \in {trim(x) : x \in TagInputs} : handleAcceptSuggestion(t)
           \/ \E text \in ReportInputs : handleSaveManualEdit(text)
           \/ \E text \in TitleInputs : saveTitle(text)
           \/ \E i \in 1..Len(refineCalls) : \E text \in RefineTexts : RefineSucceed(i, text) )
         => /\ Len(meetings') = Len(meetings)
            /\ \A i \in 1..Len(meetings) :
                 /\ meetings'[i].id = meetings[i].id
                 /\ meetings'[i].status = meetings[i].status
    ]_vars

\* a failed recording that was retitled, tagged and edited after it failed
C1_Witness ==
  \E i \in 1..Len(meetings) :
    /\ meetings[i].id = 1
    /\ meetings[i].status = ERROR
    /\ meetings[i].title = "My Title"
    /\ meetings[i].tags = <<"budget">>
    /\ meetings[i].report = "edited"

(* C2 as stated: every Completed record has a transcription and a report that  *)
(* are present and non-empty.                                                  *)
C2_CompletedNonEmpty ==
  \A i \in 1..Len(meetings) :
    meetings[i].status = COMPLETED =>
      /\ meetings[i].transcription \notin {Absent, ""}
      /\ meetings[i].report \notin {Absent, ""}

(* C2, amended: every Completed record has a transcription and a report that   *)
(* are present (not undefined); either may be the empty string.                *)
C2_CompletedPresent ==
  \A i \in 1..Len(meetings) :
    meetings[i].status = COMPLETED =>
      /\ meetings[i].transcription # Absent
      /\ meetings[i].report # Absent

\* a recording of this session that completed and whose report was then saved empty
C2_Witness ==
  \E i \in 1..Len(meetings) :
    /\ meetings[i].id = 1
    /\ meetings[i].status = COMPLETED
    /\ meetings[i].transcription = "hello team"
    /\ meetings[i].report = ""

(* C3 as stated: every Error record has the transcription and the report it    *)
(* had before the attempt; the records that fail are fresh recordings, so both *)
(* are absent.                                                                 *)
C3_ErrorKeepsPreAttemptValues ==
  \A i \in 1..Len(meetings) :
    meetings[i].status = ERROR =>
      /\ meetings[i].transcription = Absent
      /\ meetings[i].report = Absent

(* C3, amended: the failure step writes status and title of the record and     *)
(* nothing else of any record; an Error record has no transcription, and its   *)
(* report is never one a processing result brought (it is absent, or what a    *)
(* manual edit or a refine wrote).                                             *)
C3_FailureWritesStatusAndTitle ==
  /\ [](\A i \in 1..Len(meetings) :
          meetings[i].status = ERROR =>
            /\ meetings[i].transcription = Absent
            /\ meetings[i].report \notin ({r.report : r \in Results} \ {""}))
  /\ [][ \A call \in procCalls :
           ProcessFail(call) =>
             /\ Len(meetings') = Len(meetings)
             /\ \A i \in 1..Len(meetings) :
                  meetings'[i] = [meetings[i] EXCEPT !.status = meetings'[i].status,
                                                     !.title = meetings'[i].title]
       ]_vars

\* a recording that has just failed and carries the report the user saved meanwhile
C3_Witness ==
  /\ notice = ProcessingNotice
  /\ \E i \in 1..Len(meetings) :
       /\ meetings[i].status = ERROR
       /\ meetings[i].title = ErrorTitle
       /\ meetings[i].report = "edited"

(* C4 as stated: when the processing call of a record fails, after the step    *)
(* that settles it a record with that identifier is in the store and its       *)
(* status is Error.                                                            *)
C4_FailedRecordPresent ==
  [][ \A call \in procCalls :
        ProcessFail(call) =>
          /\ call.id \in idsOf(meetings')
          /\ findMeeting(meetings', call.id).status = ERROR
    ]_vars

(* C4, amended: the step that settles a failed call leaves the set of stored   *)
(* identifiers as it was, and if a record with the call's identifier is stored *)
(* (the user has not deleted it meanwhile) its status is Error afterwards.     *)
C4_FailedRecordKept ==
  [][ \A call \in procCalls :
        ProcessFail(call) =>
          /\ idsOf(meetings') = idsOf(meetings)
          /\ Len(meetings') = Len(meetings)
          /\ call.id \in idsOf(meetings) =>
               findMeeting(meetings', call.id).status = ERROR
    ]_vars

\* a recording that has just failed, tagged by the user while the call was pending
C4_Witness ==
  /\ notice = ProcessingNotice
  /\ procCalls = {}
  /\ \E i \in 1..Len(meetings) :
       /\ meetings[i].id = 1
       /\ meetings[i].status = ERROR
       /\ meetings[i].tags = <<"budget">>

(* C5: the step that completes a capture puts exactly one record in front of   *)
(* the stored ones, which stay as they were; its identifier is not one of      *)
(* theirs, its status is Processing, its title the placeholder, its tags and   *)
(* suggested tags empty; the selection points at it and its call is pending.   *)
C5_CaptureInsertsOneRecord ==
  [][ handleRecordingComplete =>
        /\ Len(meetings') = Len(meetings) + 1
        /\ Tail(meetings') = meetings
        /\ Head(meetings').id \notin idsOf(meetings)
        /\ Head(meetings').id \notin deletedInFlight
        /\ Head(meetings').status = PROCESSING
        /\ Head(meetings').title = PlaceholderTitle
        /\ Head(meetings').tags = <<>>
        /\ Head(meetings').suggestedTags = <<>>
        /\ selectedMeetingId' = Head(meetings').id
        /\ \E call \in procCalls' \ procCalls : call.id = Head(meetings').id
    ]_vars

\* a new recording in front of an earlier session's record, selected, its call pending
C5_Witness ==
  /\ Len(meetings) = 2
  /\ meetings[1].id = 1
  /\ meetings[1].status = PROCESSING
  /\ meetings[2] = PriorCompleted
  /\ selectedMeetingId = 1
  /\ \E call \in procCalls : call.id = 1

(* C6: a successful result is applied in one step.  In memory and in the      *)
(* persisted meetings slot alike, a Processing record has no transcription and *)
(* none of the result's title, report, suggested tags or language, a Completed *)
(* record has a transcription and a language a result brought, and the step    *)
(* that applies result r to a stored Processing record leaves it Completed     *)
(* with all five fields of r, in memory and in the slot.                       *)
C6_SuccessAppliedAtOnce ==
  /\ [](\A ms \in {meetings, lsMeetings.doc} : \A i \in 1..Len(ms) :
          /\ ms[i].status = PROCESSING =>
               /\ ms[i].transcription = Absent
               /\ ms[i].title \notin {r.title : r \in Results}
               /\ ms[i].report \notin ({r.report : r \in Results} \ {""})
               /\ ms[i].suggestedTags \notin ({r.suggestedTags : r \in Results} \ {<<>>})
               /\ ms[i].language \notin {r.language : r \in Results}
          /\ ms[i].status = COMPLETED =>
               /\ ms[i].transcription \in {r.transcription : r \in Results}
               /\ ms[i].language \in {r.language : r \in Results})
  /\ [][ \A call \in procCalls : \A r \in Results :
           (ProcessSucceed(call, r) /\ call.id \in idsOf(meetings)) =>
             /\ findMeeting(meetings, call.id).status = PROCESSING
             /\ findMeeting(meetings', call.id).status = COMPLETED
             /\ findMeeting(meetings', call.id).title = r.title
             /\ findMeeting(meetings', call.id).transcription = r.transcription
             /\ findMeeting(meetings', call.id).report = r.report
             /\ findMeeting(meetings', call.id).suggestedTags = r.suggestedTags
             /\ findMeeting(meetings', call.id).language = r.language
             /\ findMeeting(lsMeetings'.doc, call.id) = stripAudio(findMeeting(meetings', call.id))
       ]_vars

\* a recording that has just completed, with the five fields of the result in memory
\* and in the slot
C6_Witness ==
  /\ ~isProcessing
  /\ Len(meetings) = 2
  /\ meetings[1].id = 1
  /\ meetings[1].status = COMPLETED
  /\ meetings[1].title = "Weekly Sync"
  /\ meetings[1].transcription = "hello team"
  /\ meetings[1].report = "# Minutes"
  /\ meetings[1].suggestedTags = <<"budget">>
  /\ meetings[1].language = "English"
  /\ lsMeetings.doc[1] = stripAudio(meetings[1])

(* C7 as stated: the step that settles a failed processing call raises the     *)
(* credential notice and leaves the call's record stored with status Error and *)
(* title "Error Processing".                                                   *)
C7_FailureHasBothEffects ==
  [][ \A call \in procCalls :
        ProcessFail(call) =>
          /\ notice' = ProcessingNotice
          /\ call.id \in idsOf(meetings')
          /\ findMeeting(meetings', call.id).status = ERROR
          /\ findMeeting(meetings', call.id).title = ErrorTitle
    ]_vars

(* C7, amended: the step that settles a failed processing call raises the      *)
(* credential notice and, if the call's record is still stored, leaves it with *)
(* status Error and title "Error Processing"; no record becomes Error in a     *)
(* step that does not raise the notice, the notice is raised by no other step, *)
(* and a call made with no credential at all never succeeds.                   *)
C7_FailureNoticeAndError ==
  [][ /\ \A call \in procCalls :
           ProcessFail(call) =>
             /\ notice' = ProcessingNotice
             /\ call.id \in idsOf(meetings) =>
                  /\ findMeeting(meetings', call.id).status = ERROR
                  /\ findMeeting(meetings', call.id).title = ErrorTitle
      /\ (\E j \in 1..Len(meetings') :
            /\ meetings'[j].status = ERROR
            /\ ~\E i \in 1..Len(meetings) :
                  meetings[i].id = meetings'[j].id /\ meetings[i].status = ERROR)
         => notice' = ProcessingNotice
      /\ notice' = ProcessingNotice => \E call \in procCalls : ProcessFail(call)
      /\ \A call \in procCalls : \A r \in Results :
           ProcessSucceed(call, r) => (call.apiKey # "" \/ envKey)
    ]_vars

\* a recording made with no credential configured has just failed: Error, the failure
\* title and the notice together
C7_Witness ==
  /\ ~envKey
  /\ settings.apiKeys.google = ""
  /\ notice = ProcessingNotice
  /\ \E i \in 1..Len(meetings) :
       /\ meetings[i].id = 1
       /\ meetings[i].status = ERROR
       /\ meetings[i].title = ErrorTitle

(* C8 as stated: when the processing call of a record that was deleted while   *)
(* the call was pending settles, with a result or a failure, the meeting store *)
(* and its slot are left as they were and hold no record with that identifier. *)
C8_LateResultDropped ==
  [][ \A call \in procCalls :
        ( /\ call.id \in deletedInFlight
          /\ (ProcessFail(call) \/ \E r \in Results : ProcessSucceed(call, r)) )
        => /\ meetings' = meetings
           /\ lsMeetings' = lsMeetings
           /\ call.id \notin idsOf(meetings')
    ]_vars

(* C8, amended: when a processing call settles and no record with its          *)
(* identifier is stored (it was deleted and no restore has put it back), the   *)
(* meeting store and its slot are left as they were: no record is re-created.  *)
C8_LateResultDroppedWhenGone ==
  [][ \A call \in procCalls :
        ( /\ call.id \notin idsOf(meetings)
          /\ (ProcessFail(call) \/ \E r \in Results : ProcessSucceed(call, r)) )
        => /\ meetings' = meetings
           /\ lsMeetings' = lsMeetings
           /\ call.id \notin idsOf(meetings')
    ]_vars

\* the recording was deleted while its call was pending, the call has since settled,
\* and the store holds no record with its identifier
C8_Witness ==
  /\ deletedInFlight = {1}
  /\ procCalls = {}
  /\ ~isProcessing
  /\ nextId = 2
  /\ 1 \notin idsOf(meetings)
  /\ lsMeetings = slot(serializeMeetings(meetings))

(* C9 as stated: when a chat call settles, with a reply or an error message,   *)
(* and its agent is no longer in settings, the chat history store and its slot *)
(* are left as they were and hold no transcript under the agent's identifier   *)
(* that was not there before.                                                  *)
C9_LateReplyDropped ==
  [][ \A call \in chatCalls :
        ( /\ call.agent.id \notin agentIds(settings)
          /\ (ChatFail(call) \/ \E text \in ChatTexts : ChatReply(call, text)) )
        => /\ chatHistories' = chatHistories
           /\ lsChats' = lsChats
    ]_vars

(* C10: deleteMeeting(id) removes the record with that identifier and no       *)
(* other, keeping the order and content of the rest; the selection becomes     *)
(* empty if it pointed at id and is unchanged otherwise.                       *)
C10_DeleteRemovesExactlyOne ==
  [][ \A id \in idsOf(meetings) :
        deleteMeeting(id) =>
          /\ id \notin idsOf(meetings')
          /\ idsOf(meetings') = idsOf(meetings) \ {id}
          /\ Len(meetings') = Len(meetings) - 1
          /\ \A i \in 1..Len(meetings) :
               meetings[i].id # id =>
                 \E j \in 1..Len(meetings') : meetings'[j] = meetings[i]
          /\ selectedMeetingId = id => selectedMeetingId' = NoSelection
          /\ selectedMeetingId # id => selectedMeetingId' = selectedMeetingId
    ]_vars

\* the recording of this session is gone while the selection still points at the
\* earlier record, which is stored unchanged
C10_Witness ==
  /\ nextId = 2
  /\ 1 \notin idsOf(meetings)
  /\ selectedMeetingId = 91
  /\ meetings = <<PriorCompleted>>
  /\ deletedInFlight = {1}

---------------------------------------------------------------------------
(* Properties of selection, persistence and backup *)

(* C11 as stated: in every state the selection is empty or is the identifier   *)
(* of a record in the meeting store.                                           *)
C11_SelectionPointsAtRecord ==
  selectedMeetingId = NoSelection \/ selectedMeetingId \in idsOf(meetings)

(* C12: once the app runs, the persisted meetings slot holds one record per    *)
(* in-memory record, in order, equal to it in every field except audioBlob and *)
(* audioUrl, which are absent there; the same holds in every state for any     *)
(* record of the slot and of the backup file, and for the backup file against  *)
(* memory in the step that writes it; the step that loads the slot yields      *)
(* records with both fields absent.                                            *)
C12_AudioNeverLeavesMemory ==
  /\ [](/\ \A i \in 1..Len(lsMeetings.doc) :
             lsMeetings.doc[i].audioBlob = Absent /\ lsMeetings.doc[i].audioUrl = Absent
        /\ backup.written =>
             \A i \in 1..Len(backup.doc.meetings) :
               /\ backup.doc.meetings[i].audioBlob = Absent
               /\ backup.doc.meetings[i].audioUrl = Absent
        /\ phase = "run" =>
             /\ Len(lsMeetings.doc) = Len(meetings)
             /\ \A i \in 1..Len(meetings) :
                  lsMeetings.doc[i] = [meetings[i] EXCEPT !.audioBlob = Absent,
                                                          !.audioUrl = Absent])
  /\ [][ /\ handleExportData =>
              /\ Len(backup'.doc.meetings) = Len(meetings)
              /\ \A i \in 1..Len(meetings) :
                   backup'.doc.meetings[i] = [meetings[i] EXCEPT !.audioBlob = Absent,
                                                                 !.audioUrl = Absent]
         /\ Startup =>
              \A i \in 1..Len(meetings') :
                meetings'[i].audioBlob = Absent /\ meetings'[i].audioUrl = Absent
       ]_vars

\* a recording with its blob in memory, stored in the slot and in a backup file
\* without it
C12_Witness ==
  /\ backup.written
  /\ Len(meetings) = 2
  /\ meetings[1].audioBlob = "blob"
  /\ meetings[1].audioUrl = "url"
  /\ Len(backup.doc.meetings) = 2
  /\ backup.doc.meetings[1].id = meetings[1].id
  /\ lsMeetings.doc[1].id = meetings[1].id

(* C13: the step that writes a backup file puts the current settings, the      *)
(* current meeting records without audioBlob and audioUrl, and the current     *)
(* chat histories in it; a confirmed import of that file, whatever happened in *)
(* between, makes settings, meetings and chat histories (and their slots)      *)
(* equal to what the file holds, empty collections included.                   *)
C13_ImportRestoresExport ==
  [][ /\ handleExportData =>
           /\ backup'.doc.settings = settings
           /\ Len(backup'.doc.meetings) = Len(meetings)
           /\ \A i \in 1..Len(meetings) :
                backup'.doc.meetings[i] = [meetings[i] EXCEPT !.audioBlob = Absent,
                                                              !.audioUrl = Absent]
           /\ backup'.doc.chatHistories = chatHistories
           /\ backup'.doc.parses /\ backup'.doc.hasVersion /\ backup'.doc.hasSettings
           /\ backup'.doc.hasMeetings /\ backup'.doc.hasChats
      /\ (backup.written /\ handleFileChange(backup.doc, TRUE)) =>
           /\ settings' = backup.doc.settings
           /\ meetings' = backup.doc.meetings
           /\ chatHistories' = backup.doc.chatHistories
           /\ lsSettings' = slot(backup.doc.settings)
           /\ lsMeetings' = slot(backup.doc.meetings)
           /\ lsChats' = slot(backup.doc.chatHistories)
    ]_vars

\* a backup of an empty store was written, then a recording was made (its call is
\* still pending), then the backup was imported: the store is empty again
C13_Witness ==
  /\ notice = ImportedNotice
  /\ backup.written
  /\ backup.doc.meetings = <<>>
  /\ backup.doc.chatHistories = <<>>
  /\ \E call \in procCalls : call.id = 1
  /\ deletedInFlight = {}
  /\ meetings = <<>>
  /\ chatHistories = <<>>

(* C14: importing a file that cannot be parsed raises the parse-failed notice, *)
(* importing one that parses but lacks the version tag or the settings         *)
(* sub-object raises the invalid-format notice, and either way settings,       *)
(* meetings, chat histories and their three slots are left unchanged, whether  *)
(* or not the user would have confirmed.                                       *)
C14_InvalidImportRejected ==
  [][ backup.written =>
      \A json \in filesFrom(backup.doc) : \A confirmed \in BOOLEAN :
        ( /\ ~(json.parses /\ json.hasVersion /\ json.hasSettings)
          /\ handleFileChange(json, confirmed) )
        => /\ notice' = IF json.parses THEN InvalidFormatNotice ELSE ParseFailedNotice
           /\ UNCHANGED <<settings, meetings, chatHistories, lsSettings, lsMeetings, lsChats>>
    ]_vars

\* a file without what the import requires has just been rejected, with records and
\* a transcript in the stores
C14_Witness ==
  /\ notice \in {InvalidFormatNotice, ParseFailedNotice}
  /\ backup.written
  /\ Len(meetings) > 0
  /\ DOMAIN chatHistories # {}

(* C15: importing a file that parses and has the version tag and the settings  *)
(* sub-object changes no store and no slot if the user does not confirm; if    *)
(* the user confirms, settings become the file's settings, the meeting list    *)
(* becomes the file's list if the file has one and is kept otherwise, and the  *)
(* chat-history map becomes the file's map if the file has one and is kept     *)
(* otherwise; a replaced store holds nothing but what the file holds.          *)
C15_ImportReplacesWholesale ==
  [][ backup.written =>
      \A json \in filesFrom(backup.doc) : \A confirmed \in BOOLEAN :
        ( /\ json.parses /\ json.hasVersion /\ json.hasSettings
          /\ handleFileChange(json, confirmed) )
        => IF ~confirmed
           THEN UNCHANGED <<settings, meetings, chatHistories, lsSettings, lsMeetings, lsChats>>
           ELSE /\ settings' = json.settings
                /\ lsSettings' = slot(json.settings)
                /\ meetings' = IF json.hasMeetings THEN json.meetings ELSE meetings
                /\ lsMeetings'.doc = IF json.hasMeetings THEN json.meetings ELSE lsMeetings.doc
                /\ chatHistories' = IF json.hasChats THEN json.chatHistories ELSE chatHistories
                /\ lsChats'.doc = IF json.hasChats THEN json.chatHistories ELSE lsChats.doc
    ]_vars

\* a message was sent after the backup was written (its call is still pending) and a
\* recording was made; the import has just wiped the transcript and the record
C15_Witness ==
  /\ notice = ImportedNotice
  /\ backup.doc.chatHistories = <<>>
  /\ backup.doc.meetings = <<PriorCompleted>>
  /\ chatCalls # {}
  /\ nextId = 2
  /\ chatHistories = <<>>
  /\ meetings = <<PriorCompleted>>

---------------------------------------------------------------------------
(* Properties of the chat *)

C17_ChatFailureBecomesMessage ==
  [][ /\ \A call \in chatCalls :
           ChatFail(call) =>
             /\ chatHistories'[call.agent.id] =
                  Append(call.newHistory, [role |-> "model", content |-> ChatErrorText])
             /\ \A id \in DOMAIN chatHistories \ {call.agent.id} :
                  chatHistories'[id] = chatHistories[id]
             /\ DOMAIN chatHistories' = DOMAIN chatHistories \cup {call.agent.id}
             /\ isLoading' = FALSE
             /\ notice' = NoNotice
      /\ \A call \in chatCalls : \A text \in ChatTexts :
           (ChatReply(call, text) /\ call.agent.provider = "google") =>
             (call.apiKey # "" \/ envKey)
    ]_vars

\* with no credential anywhere, a message to one agent ended in the error message,
\* and a message to another agent has been sent since
C17_Witness ==
  /\ ~envKey
  /\ settings.apiKeys.google = ""
  /\ "lifecoach" \in DOMAIN chatHistories
  /\ chatHistories["lifecoach"] = << [role |-> "user", content |-> "hello"],
                                     [role |-> "model", content |-> ChatErrorText] >>
  /\ \E call \in chatCalls : call.agent.id = "secretary"

(* C18: a chat call for an agent whose provider is not google cannot fail and  *)
(* settles whatever credentials are configured; the step that settles it       *)
(* appends exactly one model message to the transcript that was sent, and that *)
(* message is the placeholder naming the agent's provider and model            *)
(* identifier, whatever the backend would have answered.                       *)
C18_UnsupportedProviderPlaceholder ==
  /\ [][ \A call \in chatCalls :
           call.agent.provider # "google" =>
             /\ ~ChatFail(call)
             /\ \A text \in ChatTexts :
                  ChatReply(call, text) =>
                    /\ Len(chatHistories'[call.agent.id]) = Len(call.newHistory) + 1
                    /\ SubSeq(chatHistories'[call.agent.id], 1, Len(call.newHistory)) = call.newHistory
                    /\ chatHistories'[call.agent.id][Len(call.newHistory) + 1].role = "model"
                    /\ chatHistories'[call.agent.id][Len(call.newHistory) + 1].content =
                         "[System]: Simulation - Interaction with " \o call.agent.provider \o
                         " (" \o call.agent.modelId \o ") requires their specific SDK."
       ]_vars
  /\ [](\A call \in chatCalls :
          call.agent.provider # "google" => \A text \in ChatTexts : ENABLED ChatReply(call, text))

\* with no credential anywhere, a message to an agent switched to openai / gpt-4o
\* was answered by the placeholder naming both
C18_Witness ==
  /\ ~envKey
  /\ settings.apiKeys = [google |-> "", openai |-> "", anthropic |-> ""]
  /\ chatCalls = {}
  /\ "secretary" \in DOMAIN chatHistories
  /\ chatHistories["secretary"] =
       << [role |-> "user", content |-> "hello"],
          [role |-> "model",
           content |-> "[System]: Simulation - Interaction with openai (gpt-4o) requires their specific SDK."] >>

---------------------------------------------------------------------------
(* Properties of the detail view *)

(* C19 as stated: in every state each record has at most one AI call pending,  *)
(* processing and refine calls counted together, and each agent has at most    *)
(* one chat call pending.                                                      *)
C19_OneCallPerRecordAndAgent ==
  /\ \A id \in {call.id : call \in procCalls} \cup {refineCalls[i].id : i \in 1..Len(refineCalls)} :
       Cardinality({call \in procCalls : call.id = id})
         + Cardinality({i \in 1..Len(refineCalls) : refineCalls[i].id = id}) <= 1
  /\ \A id \in {call.agent.id : call \in chatCalls} :
       Cardinality({call \in chatCalls : call.agent.id = id}) <= 1

(* C20 as stated: in every state no record's tags hold the same string twice.  *)
C20_TagsHaveNoDuplicates ==
  \A i \in 1..Len(meetings) :
    \A j \in 1..Len(meetings[i].tags) : \A k \in 1..Len(meetings[i].tags) :
      j # k => meetings[i].tags[j] # meetings[i].tags[k]

(* C21 as stated: when a refine call fails, the report of its record (if the   *)
(* record is still stored) is the report the record had when the refine was    *)
(* requested.                                                                  *)
C21_FailureLeavesRequestedReport ==
  [][ \A i \in 1..Len(refineCalls) :
        (RefineFail(i) /\ refineCalls[i].id \in idsOf(meetings)) =>
          orEmpty(findMeeting(meetings', refineCalls[i].id).report) = refineCalls[i].report
    ]_vars

(* C21, amended: the step in which a refine call fails raises the refine       *)
(* notice and leaves the meeting store and its slot as they were just before   *)
(* it (a manual edit or a processing result written while the call was pending *)
(* stays); the notice is raised by no other step; the step in which a refine   *)
(* call succeeds replaces the report of the call's record, by the response     *)
(* text or, when that is empty, by the report the call was made with, and      *)
(* changes no other field and no other record; a refine call succeeds only in  *)
(* a build with an environment credential.                                     *)
C21_RefineTouchesOnlyTheReport ==
  [][ /\ \A i \in 1..Len(refineCalls) :
           RefineFail(i) =>
             /\ meetings' = meetings
             /\ lsMeetings' = lsMeetings
             /\ notice' = RefineNotice
      /\ notice' = RefineNotice => \E i \in 1..Len(refineCalls) : RefineFail(i)
      /\ \A i \in 1..Len(refineCalls) : \A text \in RefineTexts :
           RefineSucceed(i, text) =>
             /\ envKey
             /\ notice' = NoNotice
             /\ Len(meetings') = Len(meetings)
             /\ \A k \in 1..Len(meetings) :
                  meetings'[k] =
                    IF meetings[k].id = refineCalls[i].id
                    THEN [meetings[k] EXCEPT !.report = IF text # "" THEN text
                                                        ELSE refineCalls[i].report]
                    ELSE meetings[k]
    ]_vars

\* a refine of the recording has just failed; the report is the one the user saved
\* while the call was pending, not the one the call was made with
C21_Witness ==
  /\ notice = RefineNotice
  /\ refineCalls = <<>>
  /\ ~isRefining
  /\ \E i \in 1..Len(meetings) :
       /\ meetings[i].id = 1
       /\ meetings[i].status = COMPLETED
       /\ meetings[i].report = "edited"

---------------------------------------------------------------------------
(* Properties of the agent collection *)

(* C22 as stated: in every state every agent of DEFAULT_AGENTS is in the agent *)
(* collection.                                                                 *)
C22_BuiltInAgentsStay ==
  \A i \in 1..Len(DEFAULT_AGENTS) : DEFAULT_AGENTS[i].id \in agentIds(settings)

(* C22, amended: the delete step removes exactly the agent it names, and that  *)
(* agent does not carry the isDefault flag; no other step of the agent editor  *)
(* removes an agent or changes an agent's isDefault flag; so the built-in      *)
(* agent that carries the flag (the first of DEFAULT_AGENTS) is in the         *)
(* collection, flagged, in every state.                                        *)
C22_FlaggedAgentsStay ==
  /\ [](\A i \in 1..Len(DEFAULT_AGENTS) :
          DEFAULT_AGENTS[i].isDefault =>
            \E j \in 1..Len(settings.agents) :
              /\ settings.agents[j].id = DEFAULT_AGENTS[i].id
              /\ settings.agents[j].isDefault)
  /\ [][ /\ \A id \in agentIds(settings) :
              deleteAgent(id) =>
                /\ \A i \in 1..Len(settings.agents) :
                     settings.agents[i].id = id => ~settings.agents[i].isDefault
                /\ settings'.agents = SelectSeq(settings.agents, LAMBDA a : a.id # id)
         /\ agentIds(settings) \ agentIds(settings') # {} =>
              \E id \in agentIds(settings) : deleteAgent(id)
         /\ \A i \in 1..Len(settings.agents) : \A j \in 1..Len(settings'.agents) :
              settings.agents[i].id = settings'.agents[j].id =>
                settings.agents[i].isDefault = settings'.agents[j].isDefault
       ]_vars

\* the flagged agent was edited, an unflagged built-in agent was deleted and an agent
\* was created
C22_Witness ==
  /\ agentIds(settings) = {"secretary", "coder", "1"}
  /\ settings.agents[1].id = "secretary"
  /\ settings.agents[1].provider = "openai"
  /\ settings.agents[1].isDefault

---------------------------------------------------------------------------
(* Properties of persistence and startup *)

(* C23: once the first effects have run, in every state each of the three      *)
(* slots is present and holds its store as it is in memory: the settings and   *)
(* the chat histories as they are, and the meeting records one for one, in     *)
(* order, each without audioBlob and audioUrl and otherwise equal.             *)
C23_SlotsFollowStores ==
  phase # "mount" =>
    /\ lsMeetings.has /\ lsSettings.has /\ lsChats.has
    /\ lsSettings.doc = settings
    /\ lsChats.doc = chatHistories
    /\ Len(lsMeetings.doc) = Len(meetings)
    /\ \A i \in 1..Len(meetings) :
         /\ lsMeetings.doc[i].audioBlob = Absent
         /\ lsMeetings.doc[i].audioUrl = Absent
         /\ [lsMeetings.doc[i] EXCEPT !.audioBlob = meetings[i].audioBlob,
                                      !.audioUrl = meetings[i].audioUrl] = meetings[i]

\* all three stores were changed in this session: a recording with its blob, a
\* transcript with a reply, and a credential; each slot holds the like
C23_Witness ==
  /\ phase = "run"
  /\ \E i \in 1..Len(meetings) : meetings[i].id = 1 /\ meetings[i].audioBlob = "blob"
  /\ \E i \in 1..Len(lsMeetings.doc) : lsMeetings.doc[i].id = 1
  /\ "secretary" \in DOMAIN lsChats.doc
  /\ Len(lsChats.doc["secretary"]) = 2
  /\ backup.written
  /\ backup.doc.settings.apiKeys.google # lsSettings.doc.apiKeys.google

(* C24 as stated: the step that runs the load effect and the three persist     *)
(* effects of the first commit raises no notice and leaves each in-memory      *)
(* store and each slot equal to what the slot held before the step, or, for a  *)
(* slot that was missing, leaves the store in its initial state.               *)
C24_StartupKeepsSnapshot ==
  [][ MountEffects =>
        /\ notice' = NoNotice
        /\ meetings' = IF lsMeetings.has THEN lsMeetings.doc ELSE <<>>
        /\ settings' = IF lsSettings.has THEN lsSettings.doc ELSE InitialSettings
        /\ chatHistories' = IF lsChats.has THEN lsChats.doc ELSE <<>>
        /\ lsMeetings.has => lsMeetings' = lsMeetings
        /\ lsSettings.has => lsSettings' = lsSettings
        /\ lsChats.has => lsChats' = lsChats
    ]_vars

---------------------------------------------------------------------------
(* Properties of the transcripts *)

(* C25 as stated: in every step other than a confirmed import, every           *)
(* transcript of the chat-history store is still there afterwards and starts   *)
(* with the messages it had, each at its position with its content.            *)
C25_TranscriptsOnlyGrow ==
  [][ notice' # ImportedNotice =>
        \A id \in DOMAIN chatHistories :
          /\ id \in DOMAIN chatHistories'
          /\ Len(chatHistories'[id]) >= Len(chatHistories[id])
          /\ SubSeq(chatHistories'[id], 1, Len(chatHistories[id])) = chatHistories[id]
    ]_vars

(* C26: the step that switches the active agent leaves the chat-history store  *)
(* and its slot as they were; the step that sends a message changes the        *)
(* transcript of the agent that is active and no other; the step that settles  *)
(* a call, with a reply or a failure, writes the transcript of the agent the   *)
(* message was sent to and leaves every other transcript as it was, the one of *)
(* the agent active at that time included.                                     *)
C26_ChatStepsTouchOneTranscript ==
  [][ /\ \A id \in agentIds(settings) :
           handleAgentSelect(id) => (chatHistories' = chatHistories /\ lsChats' = lsChats)
      /\ \A input \in ChatInputs :
           handleSend(input) =>
             /\ DOMAIN chatHistories' = DOMAIN chatHistories \cup {activeAgent(settings).id}
             /\ \A k \in DOMAIN chatHistories \ {activeAgent(settings).id} :
                  chatHistories'[k] = chatHistories[k]
      /\ \A call \in chatCalls :
           (ChatFail(call) \/ \E text \in ChatTexts : ChatReply(call, text)) =>
             /\ DOMAIN chatHistories' = DOMAIN chatHistories \cup {call.agent.id}
             /\ \A k \in DOMAIN chatHistories \ {call.agent.id} :
                  chatHistories'[k] = chatHistories[k]
             /\ Len(chatHistories'[call.agent.id]) = Len(call.newHistory) + 1
             /\ activeAgent(settings).id # call.agent.id =>
                  historyOf(chatHistories', activeAgent(settings).id) =
                    historyOf(chatHistories, activeAgent(settings).id)
    ]_vars

\* the first agent's message was answered while the second agent is the active one,
\* and the second agent has no transcript
C26_Witness ==
  /\ mode = "chat"
  /\ settings.activeAgentId = "lifecoach"
  /\ "lifecoach" \in agentIds(settings)
  /\ chatCalls = {}
  /\ DOMAIN chatHistories = {"secretary"}
  /\ chatHistories["secretary"] = << [role |-> "user", content |-> "hello"],
                                     [role |-> "model", content |-> "hi there"] >>

---------------------------------------------------------------------------
(* Properties of tags, processing and capture *)

(* C27 as stated: the suggested tags of a record that stays in the store       *)
(* change only in a step that applies a successful processing result or        *)
(* accepts a suggestion, and a step that adds or removes a tag by hand leaves  *)
(* the suggested tags of every record as they were (an undefined list counted  *)
(* as an empty one).                                                           *)
C27_SuggestionsSurviveTagEdits ==
  [][ LET shown(tags) == IF tags = UndefinedTags THEN <<>> ELSE tags
      IN /\ ( \/ \E t \in TagInputs : handleAddTag(t)
              \/ \E t \in {trim(x) : x \in TagInputs} : handleRemoveTag(t) )
            => /\ Len(meetings') = Len(meetings)
               /\ \A i \in 1..Len(meetings) :
                    shown(meetings'[i].suggestedTags) = shown(meetings[i].suggestedTags)
         /\ \A i \in 1..Len(meetings) : \A j \in 1..Len(meetings') :
              ( /\ meetings[i].id = meetings'[j].id
                /\ shown(meetings'[j].suggestedTags) # shown(meetings[i].suggestedTags) )
              => \/ \E call \in procCalls : \E r \in Results : ProcessSucceed(call, r)
                 \/ \E t \in {trim(x) : x \in TagInputs} : handleAcceptSuggestion(t)
    ]_vars

(* C28 as stated: once the stores are loaded, every record whose status is     *)
(* Processing has exactly one processing call pending for its identifier (the  *)
(* call whose settlement makes it Completed or Error); records read from the   *)
(* persisted slot included.                                                    *)
C28_ProcessingHasItsCall ==
  phase = "run" =>
    \A i \in 1..Len(meetings) :
      meetings[i].status = PROCESSING =>
        Cardinality({call \in procCalls : call.id = meetings[i].id}) = 1

(* C29 as stated: in every state the active agent identifier of the settings   *)
(* is the identifier of an agent of the collection, and the collection is not  *)
(* empty.                                                                      *)
C29_ActiveAgentIdPresent ==
  /\ Len(settings.agents) > 0
  /\ settings.activeAgentId \in agentIds(settings)

(* C29, amended: in every state the collection is not empty and the agent the  *)
(* handlers use as the active one is an agent of the collection: the one with  *)
(* the active identifier, or the first agent when no agent has that            *)
(* identifier; selecting an agent makes its identifier the active one; and the *)
(* active identifier stops naming an agent only in the step that deletes that  *)
(* agent or in an import.                                                      *)
C29_ActiveAgentResolves ==
  /\ [](/\ Len(settings.agents) > 0
        /\ \E i \in 1..Len(settings.agents) : settings.agents[i] = activeAgent(settings)
        /\ settings.activeAgentId \in agentIds(settings) =>
             activeAgent(settings).id = settings.activeAgentId
        /\ settings.activeAgentId \notin agentIds(settings) =>
             activeAgent(settings) = settings.agents[1])
  /\ [][ /\ \A id \in agentIds(settings) :
              handleAgentSelect(id) =>
                (settings'.activeAgentId = id /\ id \in agentIds(settings'))
         /\ ( /\ settings.activeAgentId \in agentIds(settings)
              /\ settings'.activeAgentId \notin agentIds(settings') )
            => (deleteAgent(settings.activeAgentId) \/ notice' = ImportedNotice)
       ]_vars

\* the second built-in agent was selected and then deleted, and an agent was created:
\* the active identifier names no agent and the first agent stands in
C29_Witness ==
  /\ settings.activeAgentId = "lifecoach"
  /\ agentIds(settings) = {"secretary", "coder", "1"}
  /\ activeAgent(settings).id = "secretary"

(* C30 as stated: the step that completes a capture labels the new record with *)
(* the language selected at that moment and leaves a processing call pending   *)
(* that carries the credential and the active agent of that moment.            *)
C30_CaptureUsesCurrentSelections ==
  [][ handleRecordingComplete =>
        /\ Head(meetings').language = languageLabel(selectedLanguage)
        /\ \E call \in procCalls' \ procCalls :
             /\ call.id = Head(meetings').id
             /\ call.apiKey = settings.apiKeys.google
             /\ call.agentId = activeAgent(settings).id
    ]_vars

====
